---- MODULE Spec2Model ----
(***************************************************************************)
(* A model of main.py of meme_ocr: the Reddit feed client (class Reddit)  *)
(* and the image processor (class Image).                                 *)
(*                                                                         *)
(* Spec      one ocr_meme(url) call: the Image constructor's steps and    *)
(*           draw_contours, against a file system.                        *)
(* SpecFeed  the Reddit object: construction, scrape_sub_pictures,        *)
(*           get_random_url, and the execution of main.py as a script.    *)
(***************************************************************************)
EXTENDS Integers, Sequences, FiniteSets, TLC

\* ---------------------------------------------------------------- bounds
MaxContours == 3        \* contours cv2.findContours returns for one image
MaxPosts == 2           \* posts one listing returns

\* ---------------------------------------------------------------- inputs
None == "None"                           \* Python's None, where a string is expected
Unset == <<>>                            \* an attribute not assigned yet
Some(v) == <<v>>                         \* an attribute holding v
Get(attr) == attr[1]
Dims == 2..3                             \* bounding-box widths and heights
Widths == {10, 20}                       \* image widths (self.width)
URLs == {"url1", "url2"}
UIDs == {"uid1", "uid2"}                 \* values of str(uuid.uuid4())
Creds == {"a", "b"}                      \* credential strings
OcrOutputs == {"", "A"}                  \* strings the OCR engine returns
Hints == {"absent", "image", "link"}     \* post_hint of a post, or no such attribute
Pitch == (CHOOSE d \in Dims : \A e \in Dims : e <= d) + 1   \* rows from blob to blob

Range(s) == {s[i] : i \in 1..Len(s)}
SeqsUpTo(S, n) == UNION {[1..k -> S] : k \in 0..n}

\* The contours of one decoded image, as cv2.findContours returns them: the
\* i-th contour is an object of its own (id) with bounding box (x, y, w, h).
\* The blobs are disjoint: they are stacked vertically.
ContoursOf(boxes) ==
    [i \in 1..Len(boxes) |->
        [id |-> i, x |-> 0, y |-> (i - 1) * Pitch, w |-> boxes[i][1], h |-> boxes[i][2]]]

\* The decoded images cv2.imread can return.
Images ==
    {[width |-> W, height |-> MaxContours * Pitch, found |-> ContoursOf(b)] :
        W \in Widths, b \in SeqsUpTo(Dims \X Dims, MaxContours)}

VARIABLES
    \* class Reddit
    reddit,            \* the Reddit object's fields, Unset before __init__
    image_urls,        \* self.image_urls, Unset before scrape_sub_pictures
    picked,            \* outcome of the last get_random_url call
    script,            \* running main.py as a script: "start", then how it ended
    \* class Image, one ocr_meme call
    pc,                \* position in ocr_meme / Image.__init__
    url, uid,          \* self.url, self.uid
    dirs, files,       \* the file system: directories, and path -> content
    image,             \* self.image (with self.width, self.height)
    thresh,            \* self.thresh
    contours,          \* self.contours
    cropped_contours,  \* self.cropped_contours
    texts,             \* the list texts of get_contour_texts
    contour_texts,     \* self.contour_texts
    ocr_calls          \* what the OCR engine was handed and returned, in call order

feedVars == <<reddit, image_urls, picked, script>>
imageVars == <<pc, url, uid, dirs, files, image, thresh, contours, cropped_contours,
               texts, contour_texts, ocr_calls>>
vars == <<reddit, image_urls, picked, script, pc, url, uid, dirs, files, image, thresh,
          contours, cropped_contours, texts, contour_texts, ocr_calls>>

\* ------------------------------------------------------------ class Reddit

\* praw.Reddit(...) as _initialize calls it.
_initialize(self) ==
    [client_id |-> self.username,
     client_secret |-> self.client_secret,
     password |-> self.password,
     username |-> self.username,
     user_agent |-> self.user_agent]

\* Reddit.__init__
RedditInit(username, password, client_id, client_secret, user_agent) ==
    /\ reddit = Unset
    /\ LET self == [username |-> username, password |-> password,
                    client_id |-> client_id, client_secret |-> client_secret,
                    user_agent |-> user_agent]
       IN reddit' = Some([username |-> username, password |-> password,
                          client_id |-> client_id, client_secret |-> client_secret,
                          user_agent |-> user_agent, reddit |-> _initialize(self)])
    /\ UNCHANGED <<image_urls, picked, script>>
    /\ UNCHANGED imageVars

\* The posts of a listing: post_hint (or no such attribute) and the preview's
\* first source url.
Posts == [post_hint : Hints, url : URLs]

\* posts with a post_hint attribute equal to 'image', in listing order
RECURSIVE ImagePosts(_)
ImagePosts(posts) ==
    IF posts = <<>> THEN <<>>
    ELSE LET rest == ImagePosts(Tail(posts))
         IN IF Head(posts).post_hint # "absent" /\ Head(posts).post_hint = "image"
            THEN <<Head(posts)>> \o rest
            ELSE rest

ScrapedUrls(posts) ==
    LET kept == ImagePosts(posts) IN [i \in 1..Len(kept) |-> kept[i].url]

\* Reddit.scrape_sub_pictures: listing is list(category(limit = n))
ScrapeSubPictures(listing) ==
    /\ reddit # Unset
    /\ image_urls' = Some(ScrapedUrls(listing))
    /\ UNCHANGED <<reddit, picked, script>>
    /\ UNCHANGED imageVars

\* a choice that answers None for an empty list instead of raising
RandomChoiceOrNone(a) ==
    IF Len(a) = 0 THEN {[status |-> "returned", value |-> None]}
    ELSE {[status |-> "returned", value |-> a[i]] : i \in 1..Len(a)}

\* np.random.choice(a): an error on an empty a, else any element of a
RandomChoice(a) ==
    IF Len(a) = 0 THEN {[status |-> "ValueError", value |-> None]}
    ELSE {[status |-> "returned", value |-> a[i]] : i \in 1..Len(a)}

\* Reddit.get_random_url
GetRandomUrl ==
    /\ reddit # Unset
    /\ picked' \in IF image_urls = Unset
                   THEN {[status |-> "AttributeError", value |-> None]}
                   ELSE RandomChoice(Get(image_urls))
    /\ UNCHANGED <<reddit, image_urls, script>>
    /\ UNCHANGED imageVars

\* The names bound when line 63 is reached: the module's imports, and what the
\* body of class Reddit has defined so far. (No builtin is called self.)
ModuleNames == {"os", "cv2", "math", "uuid", "praw", "urllib", "pytesseract", "np"}
ClassBodyNames == {"__init__", "_initialize", "scrape_sub_pictures", "get_random_url"}

\* Running main.py: the body of class Reddit is executed first, and with it the
\* default of ocr_meme's url parameter, the expression self.get_random_url.
\* A name that is not bound raises NameError, which ends the script before
\* class Image and the __main__ block.
RunScript ==
    /\ script = "start"
    /\ script' = IF "self" \in ClassBodyNames \cup ModuleNames
                 THEN "class Reddit defined"
                 ELSE "NameError"
    /\ UNCHANGED <<reddit, image_urls, picked>>
    /\ UNCHANGED imageVars

\* ------------------------------------------------------------- class Image

RunPath(u) == <<"images", u>>                                  \* self.path
InputPath(u) == <<"images", u, "input_images", "input.png">>   \* self.image_path
ContoursPathBesideInput(u) == <<"images", u, "input_images", "contours.png">>
ContoursPath(u) == <<"images", u, "output_images", "contours.png">>
TextPath(u) == <<"images", u, "output_texts", "text.txt">>
SubDirs == {"input_images", "output_images", "output_texts"}

\* os.makedirs(path): the directory and every missing parent
MakeDirsOf(path) == {SubSeq(path, 1, k) : k \in 1..Len(path)}

\* writing a file creates it or replaces its content
WriteFile(fs, path, content) == (path :> content) @@ fs

\* Reddit.ocr_meme(url) up to Image.__init__'s first three assignments
OcrMeme(u, id) ==
    /\ pc = "idle"
    /\ url' = u
    /\ uid' = id
    /\ pc' = "makedirs"
    /\ UNCHANGED <<dirs, files, image, thresh, contours, cropped_contours, texts,
                   contour_texts, ocr_calls>>
    /\ UNCHANGED feedVars

\* save_image_from_url: the directory structure
MakeDirs ==
    /\ pc = "makedirs"
    /\ dirs' = dirs \cup {<<"images">>}
                    \cup UNION {MakeDirsOf(RunPath(uid) \o <<d>>) : d \in SubDirs}
    /\ pc' = "urlretrieve"
    /\ UNCHANGED <<url, uid, files, image, thresh, contours, cropped_contours, texts,
                   contour_texts, ocr_calls>>
    /\ UNCHANGED feedVars

\* save_image_from_url: urllib.request.urlretrieve(self.url, self.image_path).
\* It raises before it opens the file, or after it wrote a part of it, or it
\* returns with the whole content written.
UrlRetrieve(outcome) ==
    /\ pc = "urlretrieve"
    /\ \/ /\ outcome = "no response"
          /\ pc' = "DownloadError"
          /\ files' = files
       \/ /\ outcome = "content too short"
          /\ pc' = "DownloadError"
          /\ files' = WriteFile(files, InputPath(uid), [bytes_of |-> url, whole |-> FALSE])
       \/ /\ outcome = "retrieved"
          /\ pc' = "imread"
          /\ files' = WriteFile(files, InputPath(uid), [bytes_of |-> url, whole |-> TRUE])
    /\ UNCHANGED <<url, uid, dirs, image, thresh, contours, cropped_contours, texts,
                   contour_texts, ocr_calls>>
    /\ UNCHANGED feedVars

\* save_image_from_url: cv2.imread returns None for a file it cannot decode, and
\* __init__ then fails reading None.shape; else self.image, height and width.
ImRead(decoded) ==
    /\ pc = "imread"
    /\ IF decoded = Unset
       THEN pc' = "DecodeError" /\ image' = image
       ELSE pc' = "get_text_boxes" /\ image' = decoded
    /\ UNCHANGED <<url, uid, dirs, files, thresh, contours, cropped_contours, texts,
                   contour_texts, ocr_calls>>
    /\ UNCHANGED feedVars

\* cv2.boundingRect(contour)
BoundingRect(c) == <<c.x, c.y, c.w, c.h>>

\* get_text_boxes: the two tests that remove a contour. w < self.width * .15 is
\* a comparison of doubles; for integers w and width it equals 20 w < 3 width.
TooTallOrSquare(c) == c.h >= c.w          \* the height test with >= for >
TooTall(c) == BoundingRect(c)[4] > BoundingRect(c)[3]
TooNarrow(c, width) == 20 * BoundingRect(c)[3] < 3 * width
Rejected(c, width) == TooTall(c) \/ TooNarrow(c, width)

\* list.remove(x): the first item equal to x goes
IndexOf(list, x) ==
    CHOOSE j \in 1..Len(list) : list[j] = x /\ \A k \in 1..(j - 1) : list[k] # x
ListRemove(list, x) ==
    SubSeq(list, 1, IndexOf(list, x) - 1) \o SubSeq(list, IndexOf(list, x) + 1, Len(list))

\* What the libraries of a build do with contours.remove(contour): contours is
\* a list or a tuple (which has no remove), and list.remove compares the items
\* before the one it finds with ==, which on two numpy arrays is False (shapes
\* that do not match, older numpy) or raises ValueError.
Builds == {"list, == is False", "list, == raises", "tuple"}

\* get_text_boxes: the for loop over contours that removes from contours. The
\* loop reads contours[i] for i = 1, 2, ... until i passes the current length.
RECURSIVE NarrowDown(_, _, _, _)
NarrowDown(list, i, width, build) ==
    IF i > Len(list) THEN [status |-> "returned", contours |-> list]
    ELSE IF Rejected(list[i], width)
         THEN IF build = "tuple"
              THEN [status |-> "AttributeError", contours |-> <<>>]
              ELSE IF build = "list, == raises" /\ IndexOf(list, list[i]) > 1
                   THEN [status |-> "ValueError", contours |-> <<>>]
                   ELSE NarrowDown(ListRemove(list, list[i]), i + 1, width, build)
         ELSE NarrowDown(list, i + 1, width, build)

\* the mask cv2.threshold and the inversion leave of an image
Threshold(img) == "thresh"

\* Image.get_text_boxes
GetTextBoxes(build) ==
    /\ pc = "get_text_boxes"
    /\ thresh' = Some(Threshold(Get(image)))
    /\ LET got == NarrowDown(Get(image).found, 1, Get(image).width, build)
       IN IF got.status = "returned"
          THEN contours' = Some(got.contours) /\ pc' = "crop_contours"
          ELSE contours' = contours /\ pc' = "RemoveError"
    /\ UNCHANGED <<url, uid, dirs, files, image, cropped_contours, texts, contour_texts,
                   ocr_calls>>
    /\ UNCHANGED feedVars

\* the slice with rows and columns exchanged: self.thresh[x : x + w, y : y + h]
CropTransposed(mask, c) ==
    [of |-> mask, rows |-> <<c.x, c.x + c.w>>, cols |-> <<c.y, c.y + c.h>>]

\* self.thresh[y : y + h, x : x + w]
Crop(mask, c) ==
    [of |-> mask,
     rows |-> <<BoundingRect(c)[2], BoundingRect(c)[2] + BoundingRect(c)[4]>>,
     cols |-> <<BoundingRect(c)[1], BoundingRect(c)[1] + BoundingRect(c)[3]>>]

\* crop_contours: the loop
CroppedContours(mask, list) == [i \in 1..Len(list) |-> Crop(mask, list[i])]

\* Image.crop_contours
CropContours ==
    /\ pc = "crop_contours"
    /\ IF Len(Get(contours)) = 0
       THEN pc' = "AssertionError" /\ cropped_contours' = cropped_contours
       ELSE /\ pc' = "get_contour_texts"
            /\ cropped_contours' = Some(CroppedContours(Get(thresh), Get(contours)))
    /\ UNCHANGED <<url, uid, dirs, files, image, thresh, contours, texts, contour_texts,
                   ocr_calls>>
    /\ UNCHANGED feedVars

\* cv2.dilate(image, np.ones((2, 2)), iterations = 1)
Dilate(img) == [dilated |-> img, kernel |-> <<2, 2>>, iterations |-> 1]

\* get_contour_texts: one pass of the loop, on the crop after those already
\* read. pytesseract.image_to_string returns a string or raises.
OcrContour(outcome) ==
    /\ pc = "get_contour_texts"
    /\ Len(texts) < Len(Get(cropped_contours))
    /\ LET img == Get(cropped_contours)[Len(texts) + 1]
       IN ocr_calls' = Append(ocr_calls, [input |-> Dilate(img),
                                          config |-> "-l eng --oem 1 --psm 3",
                                          output |-> outcome])
    /\ IF outcome = "TesseractError"
       THEN pc' = "OcrError" /\ texts' = texts
       ELSE pc' = pc /\ texts' = Append(texts, outcome)
    /\ UNCHANGED <<url, uid, dirs, files, image, thresh, contours, cropped_contours,
                   contour_texts>>
    /\ UNCHANGED feedVars

\* '\n'.join(texts)
RECURSIVE Join(_, _)
Join(sep, strs) ==
    IF Len(strs) = 0 THEN ""
    ELSE IF Len(strs) = 1 THEN strs[1]
    ELSE strs[1] \o sep \o Join(sep, Tail(strs))

\* get_contour_texts: after the loop, the text file, and the return to __init__
SaveTexts ==
    /\ pc = "get_contour_texts"
    /\ Len(texts) = Len(Get(cropped_contours))
    /\ files' = WriteFile(files, TextPath(uid), Join("\n", texts))
    /\ contour_texts' = Some(texts)
    /\ pc' = "draw_contours"
    /\ UNCHANGED <<url, uid, dirs, image, thresh, contours, cropped_contours, texts,
                   ocr_calls>>
    /\ UNCHANGED feedVars

\* cv2.rectangle(copy, (x, y), (x + w, y + h), (0, 255, 0), 2)
Rectangle(c) ==
    [pt1 |-> <<BoundingRect(c)[1], BoundingRect(c)[2]>>,
     pt2 |-> <<BoundingRect(c)[1] + BoundingRect(c)[3],
               BoundingRect(c)[2] + BoundingRect(c)[4]>>,
     color |-> <<0, 255, 0>>, thickness |-> 2]

\* draw_contours: the copy of the image with its rectangles
Annotated(img, list) ==
    [copy_of |-> img, rectangles |-> [i \in 1..Len(list) |-> Rectangle(list[i])]]

\* draw_contours called in __init__ between crop_contours and get_contour_texts
DrawContoursBeforeOcr ==
    /\ pc = "get_contour_texts"
    /\ texts = <<>>
    /\ <<"images", uid, "output_images", "contours.png">> \notin DOMAIN files
    /\ files' = WriteFile(files, <<"images", uid, "output_images", "contours.png">>,
                          Annotated(Get(image), Get(contours)))
    /\ UNCHANGED <<pc, url, uid, dirs, image, thresh, contours, cropped_contours, texts,
                   contour_texts, ocr_calls>>
    /\ UNCHANGED feedVars

\* draw_contours called in __init__ between get_text_boxes and crop_contours
DrawContoursBeforeCrop ==
    /\ pc = "crop_contours"
    /\ <<"images", uid, "output_images", "contours.png">> \notin DOMAIN files
    /\ files' = WriteFile(files, <<"images", uid, "output_images", "contours.png">>,
                          Annotated(Get(image), Get(contours)))
    /\ UNCHANGED <<pc, url, uid, dirs, image, thresh, contours, cropped_contours, texts,
                   contour_texts, ocr_calls>>
    /\ UNCHANGED feedVars

\* Image.draw_contours, which ocr_meme calls on the constructed Image
DrawContours ==
    /\ pc = "draw_contours"
    /\ files' = WriteFile(files, ContoursPath(uid), Annotated(Get(image), Get(contours)))
    /\ pc' = "done"
    /\ UNCHANGED <<url, uid, dirs, image, thresh, contours, cropped_contours, texts,
                   contour_texts, ocr_calls>>
    /\ UNCHANGED feedVars

FeedInit ==
    /\ reddit = Unset
    /\ image_urls = Unset
    /\ picked = [status |-> "not called", value |-> None]
    /\ script = "start"

ImageInit ==
    /\ pc = "idle"
    /\ url = None
    /\ uid = None
    /\ dirs \in {{}, {<<"images">>}}
    /\ files = <<>>
    /\ image = Unset
    /\ thresh = Unset
    /\ contours = Unset
    /\ cropped_contours = Unset
    /\ texts = <<>>
    /\ contour_texts = Unset
    /\ ocr_calls = <<>>

Init == FeedInit /\ ImageInit

FeedNext ==
    \/ \E u, p, ci, cs, ua \in Creds : RedditInit(u, p, ci, cs, ua)
    \/ \E l \in SeqsUpTo(Posts, MaxPosts) : ScrapeSubPictures(l)
    \/ GetRandomUrl
    \/ RunScript

SpecFeed == Init /\ [][FeedNext]_vars

Next ==
    \/ \E u \in URLs, id \in UIDs : OcrMeme(u, id)
    \/ MakeDirs
    \/ \E outcome \in {"no response", "content too short", "retrieved"} : UrlRetrieve(outcome)
    \/ \E decoded \in {Unset} \cup {Some(img) : img \in Images} : ImRead(decoded)
    \/ \E build \in Builds : GetTextBoxes(build)
    \/ CropContours
    \/ \E outcome \in OcrOutputs \cup {"TesseractError"} : OcrContour(outcome)
    \/ SaveTexts
    \/ DrawContours

Spec == Init /\ [][Next]_vars
\* ------------------------------------------------------------------ claims

Found == Get(image).found
Regions == Get(contours)
PassesFilter(c) == c.w >= c.h /\ 20 * c.w >= 3 * Get(image).width
RunFiles == {p \in DOMAIN files : SubSeq(p, 1, 2) = <<"images", uid>>}
OcrReached == pc \in {"get_contour_texts", "draw_contours", "done"}
Aborted == pc \in {"DownloadError", "DecodeError", "AssertionError"}

\* C1: every Region get_text_boxes returns has width >= height and
\* width >= 0.15 * image width, whatever the number and order of contours.
C1_ReturnedRegionsPassFilter ==
    contours # Unset => \A i \in 1..Len(Regions) : PassesFilter(Regions[i])

\* the texts joined by newlines, built from the last text backwards
RECURSIVE NewlineJoined(_)
NewlineJoined(strs) ==
    IF Len(strs) = 0 THEN ""
    ELSE IF Len(strs) = 1 THEN strs[1]
    ELSE NewlineJoined(SubSeq(strs, 1, Len(strs) - 1)) \o "\n" \o strs[Len(strs)]

\* C2: once the OCR step is reached, regions and crops have the same length and
\* the i-th crop is the i-th region's bounding box cut from the mask; the i-th
\* text is what the OCR engine returned for the (dilated) i-th crop; after the
\* step the text list is as long as the region list and the text file holds the
\* texts joined by newlines in that order.
C2_ListsAligned ==
    OcrReached =>
        /\ Len(Get(cropped_contours)) = Len(Regions)
        /\ \A i \in 1..Len(Regions) :
              /\ Get(cropped_contours)[i].rows = <<Regions[i].y, Regions[i].y + Regions[i].h>>
              /\ Get(cropped_contours)[i].cols = <<Regions[i].x, Regions[i].x + Regions[i].w>>
        /\ Len(texts) = Len(ocr_calls)
        /\ Len(texts) <= Len(Regions)
        /\ \A i \in 1..Len(texts) :
              /\ texts[i] = ocr_calls[i].output
              /\ ocr_calls[i].input.dilated = Get(cropped_contours)[i]
        /\ pc \in {"draw_contours", "done"} =>
              /\ contour_texts = Some(texts)
              /\ Len(texts) = Len(Regions)
              /\ files[<<"images", uid, "output_texts", "text.txt">>] = NewlineJoined(texts)

\* a finished run with a removed contour and regions whose boxes and texts differ
C2_Witness ==
    /\ pc = "done"
    /\ Len(Regions) >= 2
    /\ Len(Regions) < Len(Found)
    /\ Regions[1].w # Regions[2].w
    /\ Get(contour_texts)[1] # Get(contour_texts)[2]

\* C3: when every contour of the image fails the acceptance criterion,
\* detection yields no Region and the run does not continue to OCR (it fails
\* at the crop step's assertion).
C3_AllRejectedFailsAtCrop ==
    (image # Unset /\ \A i \in 1..Len(Found) : ~PassesFilter(Found[i])) =>
        /\ contours # Unset => Len(Regions) = 0
        /\ ~OcrReached

\* C4: when main.py has run, the Image Processor was handed as its URL an
\* element of the image-URL list the scrape stored.
C4_ScriptHandsScrapedUrl ==
    script # "start" => (image_urls # Unset /\ url \in Range(Get(image_urls)))

\* C5: get_random_url on an empty list fails and returns no URL; on a
\* non-empty list it returns an element of the list (the one URL of a
\* singleton); it leaves the stored list as it is.
C5_PickRandom ==
    [][GetRandomUrl =>
        /\ image_urls' = image_urls
        /\ (image_urls # Unset /\ Len(Get(image_urls)) = 0) =>
              (picked'.status # "returned" /\ picked'.value \notin URLs)
        /\ (image_urls # Unset /\ Len(Get(image_urls)) > 0) =>
              (picked'.status = "returned" /\ picked'.value \in Range(Get(image_urls)))
        /\ (image_urls # Unset /\ Len(Get(image_urls)) = 1) =>
              picked'.value = Get(image_urls)[1]]_vars

\* get_random_url returned the second URL of a list of two different URLs
C5_Witness ==
    /\ image_urls # Unset
    /\ Len(Get(image_urls)) = 2
    /\ Get(image_urls)[1] # Get(image_urls)[2]
    /\ picked.status = "returned"
    /\ picked.value = Get(image_urls)[2]

\* C6: after a run that completes, images/<run-id>/ holds exactly
\* input_images/input.png, output_images/contours.png and output_texts/text.txt.
C6_ExactlyThreeFiles ==
    pc = "done" =>
        RunFiles = {<<"images", uid, "input_images", "input.png">>,
                    <<"images", uid, "output_images", "contours.png">>,
                    <<"images", uid, "output_texts", "text.txt">>}

C6_Witness == pc = "done" /\ Cardinality(RunFiles) = 3

\* C7 as stated: contours.png is written before the OCR engine is first
\* invoked and before text.txt is written.
C7_AnnotateBeforeOcr ==
    (Len(ocr_calls) > 0 \/ <<"images", uid, "output_texts", "text.txt">> \in DOMAIN files)
        => <<"images", uid, "output_images", "contours.png">> \in DOMAIN files

\* C7 amended: the steps run in the order Init, Fetch, Detect regions, Crop,
\* OCR, Persist text, Annotate & save: contours.png is written only after the
\* OCR engine was invoked on every crop and text.txt was written, text.txt
\* only after every OCR call, the crops only after detection, detection only
\* after the fetch, the fetch only after the directories were made.
C7_AnnotateAfterText ==
    /\ <<"images", uid, "output_images", "contours.png">> \in DOMAIN files =>
          <<"images", uid, "output_texts", "text.txt">> \in DOMAIN files
    /\ <<"images", uid, "output_texts", "text.txt">> \in DOMAIN files =>
          (cropped_contours # Unset /\ Len(ocr_calls) = Len(Get(cropped_contours)))
    /\ Len(ocr_calls) > 0 => cropped_contours # Unset
    /\ cropped_contours # Unset => contours # Unset
    /\ contours # Unset => image # Unset
    /\ image # Unset => <<"images", uid, "input_images", "input.png">> \in DOMAIN files
    /\ <<"images", uid, "input_images", "input.png">> \in DOMAIN files =>
          <<"images", uid, "input_images">> \in dirs

C7_Witness ==
    /\ <<"images", uid, "output_images", "contours.png">> \in DOMAIN files
    /\ Len(ocr_calls) >= 2

\* C8: every contour that passes the filter is in the returned Region list
\* exactly once, and the Regions are in the order of contour extraction.
C8_AcceptedAllKept ==
    contours # Unset =>
        /\ \A i \in 1..Len(Found) :
              PassesFilter(Found[i]) =>
                  Cardinality({j \in 1..Len(Regions) : Regions[j] = Found[i]}) = 1
        /\ \A j, k \in 1..Len(Regions) : j < k => Regions[j].id < Regions[k].id

\* two accepted contours, one of them square, around one that was removed
C8_Witness ==
    /\ contours # Unset
    /\ Len(Found) = 3
    /\ Len(Regions) = 2
    /\ PassesFilter(Found[1]) /\ ~PassesFilter(Found[2]) /\ PassesFilter(Found[3])
    /\ Found[1].w = Found[1].h

\* C9: the session is built with each of the five values in its own slot.
C9_CredentialsInOwnSlots ==
    reddit # Unset =>
        /\ Get(reddit).reddit.client_id = Get(reddit).client_id
        /\ Get(reddit).reddit.client_secret = Get(reddit).client_secret
        /\ Get(reddit).reddit.username = Get(reddit).username
        /\ Get(reddit).reddit.password = Get(reddit).password
        /\ Get(reddit).reddit.user_agent = Get(reddit).user_agent

\* C10: a run that aborted at download, decode or the zero-regions assertion
\* has neither contours.png nor text.txt, and never gets them; its three
\* subdirectories exist, and input.png does when the download succeeded.
C10_AbortWritesNoOutput ==
    Aborted =>
        /\ <<"images", uid, "output_images", "contours.png">> \notin DOMAIN files
        /\ <<"images", uid, "output_texts", "text.txt">> \notin DOMAIN files
        /\ {<<"images", uid, "input_images">>, <<"images", uid, "output_images">>,
            <<"images", uid, "output_texts">>} \subseteq dirs
        /\ pc # "DownloadError" =>
              /\ <<"images", uid, "input_images", "input.png">> \in DOMAIN files
              /\ files[<<"images", uid, "input_images", "input.png">>].whole
        /\ ~ENABLED Next

\* the run aborted at the assertion after the image's one contour was removed
C10_Witness == pc = "AssertionError" /\ Len(Found) = 1 /\ Len(Regions) = 0
====
